---------------------------- MODULE Spec2Model ----------------------------
(***************************************************************************)
(* croo: Cromwell output organizer (src/croo/croo.py).                     *)
(*                                                                         *)
(* Two machines are modelled:                                              *)
(*   - Croo.__interpret_inline_exp, the template interpreter, as a step    *)
(*     machine over its rescan loop (InterpSpec / FairInterpSpec) and as   *)
(*     the operator InterpretInlineExp built from the same loop body;      *)
(*   - Croo.organize_output, the matcher, as a step machine over its four  *)
(*     nested loops (Spec), calling InterpretInlineExp.                    *)
(*                                                                         *)
(* Strings are sequences of tokens.  A token is one of the characters      *)
(* "$", "{", "}", "/" or a whole word (an identifier, a literal run of     *)
(* text, a number).  Word tokens are chosen so that no concatenation of    *)
(* them spells a name that Python's eval would find.                       *)
(***************************************************************************)
EXTENDS Integers, Sequences, FiniteSets, TLC

VARIABLES
    \* ---- Croo.__interpret_inline_exp ----
    s,            \* the template argument
    full_path,    \* the file location argument
    shard_idx,    \* the scatter index argument
    result,       \* the working string
    m,            \* the last re.search result
    ipc,          \* position: "search", "replace", "returned", "raised", "idle"
    \* ---- Croo.organize_output ----
    out_def,      \* self._out_def_json : sequence of <<task_name, out_vars>>
    task_graph,   \* self._task_graph.get_nodes() : sequence of task records
    soft_link,    \* self._soft_link
    pos,          \* loop position <<ti, vi, ni, oi>>
    log,          \* calls made on CaperURI and on the report, in order
    saved,        \* report.save_to_file() was called
    pc            \* "run", "done", "raised", "hung", "idle"

vars == <<s, full_path, shard_idx, result, m, ipc,
          out_def, task_graph, soft_link, pos, log, saved, pc>>

interp_vars == <<s, full_path, shard_idx, result, m, ipc>>
organize_vars == <<out_def, task_graph, soft_link, pos, log, saved, pc>>

-----------------------------------------------------------------------------
(* Bounds *)

MaxLen == 4          \* longest template the interpreter is started on
MaxResultLen == 12   \* cap on the working string of the step machine
MaxScan == 6         \* substitutions InterpretInlineExp follows
MaxNodes == 2        \* task records in a task graph

-----------------------------------------------------------------------------
(* Python values and strings *)

PyNone == [t |-> "none"]
PyInt(n) == [t |-> "int", v |-> n]
PyStr(x) == [t |-> "str", v |-> x]
PyTuple(x) == [t |-> "tuple", v |-> x]
PyModule == [t |-> "module"]

\* repr of a tuple of ints: "(0,)" for one element, "(0, -1)" otherwise
RECURSIVE TupleItems(_)
TupleItems(t) ==
    IF Len(t) = 0 THEN << >>
    ELSE IF Len(t) = 1 THEN <<ToString(t[1])>>
    ELSE <<ToString(t[1]), ", ">> \o TupleItems(Tail(t))

TupleRepr(t) ==
    IF Len(t) = 1 THEN <<"(", ToString(t[1]), ",", ")">>
    ELSE <<"(">> \o TupleItems(t) \o <<")">>

\* str(value)
Str(val) ==
    CASE val.t = "int"    -> <<ToString(val.v)>>
      [] val.t = "none"   -> <<"None">>
      [] val.t = "str"    -> val.v
      [] val.t = "tuple"  -> TupleRepr(val.v)
      [] val.t = "module" -> <<"<module 'os'>">>

\* positions of "/" in a path
Slashes(p) == {n \in 1..Len(p) : p[n] = "/"}

SetMax(S) == CHOOSE x \in S : \A y \in S : y <= x
SetMin(S) == CHOOSE x \in S : \A y \in S : x <= y

\* os.path.basename: everything after the last "/"
Basename(p) ==
    IF Slashes(p) = {} THEN p
    ELSE SubSeq(p, SetMax(Slashes(p)) + 1, Len(p))

\* str.rstrip("/")
RECURSIVE RStripSlash(_)
RStripSlash(p) ==
    IF Len(p) > 0 /\ p[Len(p)] = "/" THEN RStripSlash(SubSeq(p, 1, Len(p) - 1))
    ELSE p

\* os.path.dirname: the head up to the last "/", trailing slashes stripped
\* unless the head is made of slashes only
Dirname(p) ==
    IF Slashes(p) = {} THEN << >>
    ELSE LET head == SubSeq(p, 1, SetMax(Slashes(p)))
         IN  IF \A n \in 1..Len(head) : head[n] = "/" THEN head
             ELSE RStripSlash(head)

\* os.path.join(a, b)
Join(a, b) ==
    IF Len(b) > 0 /\ b[1] = "/" THEN b
    ELSE IF Len(a) = 0 \/ a[Len(a)] = "/" THEN a \o b
    ELSE a \o <<"/">> \o b

-----------------------------------------------------------------------------
(* Croo.__interpret_inline_exp *)

NoMatch == [start |-> 0, end |-> 0]

\* positions where "${" starts and a "}" follows it
Opens(r) ==
    {p \in 1..Len(r) : /\ p + 1 <= Len(r)
                       /\ r[p] = "$"
                       /\ r[p + 1] = "{"
                       /\ \E q \in (p + 2)..Len(r) : r[q] = "}"}

\* re.search(r'\$\{(.*?)\}', r): leftmost "${", shortest run up to a "}"
Search(r) ==
    IF Opens(r) = {} THEN NoMatch
    ELSE LET p == SetMin(Opens(r))
             q == SetMin({n \in (p + 2)..Len(r) : r[n] = "}"})
         IN  [start |-> p, end |-> q]

Group0(r, mt) == SubSeq(r, mt.start, mt.end)
Group1(r, mt) == SubSeq(r, mt.start + 2, mt.end - 1)

\* first position at which old occurs in r (0 when it does not)
FirstOcc(r, old) ==
    LET hits == {p \in 1..(Len(r) - Len(old) + 1) :
                    SubSeq(r, p, p + Len(old) - 1) = old}
    IN  IF hits = {} THEN 0 ELSE SetMin(hits)

\* r.replace(old, new, 1)
ReplaceFirst(r, old, new) ==
    LET p == FirstOcc(r, old)
    IN  IF p = 0 THEN r
        ELSE SubSeq(r, 1, p - 1) \o new \o SubSeq(r, p + Len(old), Len(r))

\* the bindings made before the loop
BindI(sh) == IF sh[1] > -1 THEN PyInt(sh[1]) ELSE PyNone
BindJ(sh) == IF Len(sh) > 1 /\ sh[2] > -1 THEN PyInt(sh[2]) ELSE PyNone
BindK(sh) == IF Len(sh) > 2 /\ sh[3] > -1 THEN PyInt(sh[3]) ELSE PyNone

\* Names eval finds in the frame of __interpret_inline_exp: its locals and the
\* module's globals (of the globals only os is modelled; the local m is not).
Scope == {"i", "j", "k", "basename", "dirname", "full_path", "shard_idx",
          "s", "result", "os"}

Lookup(name, tmpl, fp, sh, res) ==
    CASE name = "i"         -> BindI(sh)
      [] name = "j"         -> BindJ(sh)
      [] name = "k"         -> BindK(sh)
      [] name = "basename"  -> PyStr(Basename(fp))
      [] name = "dirname"   -> PyStr(Dirname(fp))
      [] name = "full_path" -> PyStr(fp)
      [] name = "shard_idx" -> PyTuple(sh)
      [] name = "s"         -> PyStr(tmpl)
      [] name = "result"    -> PyStr(res)
      [] name = "os"        -> PyModule

\* eval(expr) in that frame.  An expression of one word is a name lookup
\* (NameError when the name is not in scope); any other token sequence of
\* the model's alphabets is a SyntaxError or a NameError.
Eval(expr, tmpl, fp, sh, res) ==
    IF Len(expr) = 1 /\ expr[1] \in Scope
    THEN [raised |-> FALSE, value |-> Lookup(expr[1], tmpl, fp, sh, res)]
    ELSE [raised |-> TRUE, value |-> PyNone]

\* One pass of the while loop on the working string res:
\*   [kind |-> "break"]            no placeholder is left
\*   [kind |-> "raise"]            eval raised
\*   [kind |-> "subst", res |-> r] the placeholder was replaced
LoopBody(res, tmpl, fp, sh) ==
    LET mt == Search(res)
    IN  IF mt = NoMatch THEN [kind |-> "break", res |-> res]
        ELSE LET e == Eval(Group1(res, mt), tmpl, fp, sh, res)
             IN  IF e.raised THEN [kind |-> "raise", res |-> res]
                 ELSE [kind |-> "subst",
                       res |-> ReplaceFirst(res, Group0(res, mt), Str(e.value))]

\* The whole call.  kind is "ok" (returned res), "raise" (an exception left
\* the call) or "loop" (the while loop does not end: the working string
\* repeats, or outgrows the MaxScan substitutions followed here).
RECURSIVE Rescan(_, _, _, _, _)
Rescan(res, tmpl, fp, sh, fuel) ==
    LET b == LoopBody(res, tmpl, fp, sh)
    IN  CASE b.kind = "break" -> [kind |-> "ok", res |-> res]
          [] b.kind = "raise" -> [kind |-> "raise", res |-> res]
          [] b.kind = "subst" ->
                IF b.res = res \/ fuel = 0 THEN [kind |-> "loop", res |-> res]
                ELSE Rescan(b.res, tmpl, fp, sh, fuel - 1)

InterpretInlineExp(tmpl, fp, sh) == Rescan(tmpl, tmpl, fp, sh, MaxScan)

-----------------------------------------------------------------------------
(* The interpreter as a step machine over its while loop *)

\* tokens of the templates the interpreter is started on
TemplateTokens == {"$", "{", "}", "i", "j", "k", "basename", "os", "x"}

RECURSIVE SeqsUpTo(_, _)
SeqsUpTo(S, n) ==
    IF n = 0 THEN {<< >>}
    ELSE LET shorter == SeqsUpTo(S, n - 1)
         IN  shorter \cup {Append(q, x) : q \in {y \in shorter : Len(y) = n - 1}, x \in S}

Templates == SeqsUpTo(TemplateTokens, MaxLen)

\* "/w/x", a file named "${basename}", a file named "${i}"
FileLocations ==
    { <<"/", "w", "/", "x">>,
      <<"/", "w", "/", "$", "{", "basename", "}">>,
      <<"/", "w", "/", "$", "{", "i", "}">> }

\* not scattered; scattered twice; scattered at levels 0 and 2 only
ScatterIndexes == { <<-1>>, <<0, 2>>, <<1, -1, 0>> }

OrganizeIdle ==
    /\ out_def = << >>
    /\ task_graph = << >>
    /\ soft_link = FALSE
    /\ pos = <<0, 0, 0, 0>>
    /\ log = << >>
    /\ saved = FALSE
    /\ pc = "idle"

InterpInit ==
    /\ s \in Templates
    /\ full_path \in FileLocations
    /\ shard_idx \in ScatterIndexes
    /\ result = s
    /\ m = NoMatch
    /\ ipc = "search"
    /\ OrganizeIdle

\* m = re.search(...); if m is None: break; return result
InterpSearch ==
    /\ ipc = "search"
    /\ m' = Search(result)
    /\ ipc' = IF Search(result) = NoMatch THEN "returned" ELSE "replace"
    /\ UNCHANGED <<s, full_path, shard_idx, result>>
    /\ UNCHANGED organize_vars

\* result = result.replace(m.group(0), str(eval(m.group(1))), 1)
InterpReplace ==
    /\ ipc = "replace"
    /\ LET b == LoopBody(result, s, full_path, shard_idx)
       IN  IF b.kind = "raise"
           THEN /\ ipc' = "raised"
                /\ UNCHANGED result
           ELSE /\ Len(b.res) <= MaxResultLen
                /\ ipc' = "search"
                /\ result' = b.res
    /\ UNCHANGED <<s, full_path, shard_idx, m>>
    /\ UNCHANGED organize_vars

InterpNext == InterpSearch \/ InterpReplace

InterpSpec == InterpInit /\ [][InterpNext]_vars

\* The loop is straight-line code in one thread: it keeps running.
FairInterpSpec == InterpInit /\ [][InterpNext]_vars /\ WF_vars(InterpNext)

-----------------------------------------------------------------------------
(* Croo.organize_output: inputs *)

\* self._out_dir
OutDir == <<"/", "out">>

TaskNames == {"align", "align2"}
VarNames == {"bam", "bam2"}

\* "rep${i}/${basename}", "BAM rep${i}", "track ${basename}", "${x}"
PathTemplate == <<"rep", "$", "{", "i", "}", "/", "$", "{", "basename", "}">>
TableTemplate == <<"BAM rep", "$", "{", "i", "}">>
TrackTemplate == <<"track ", "$", "{", "basename", "}">>
BadTemplate == <<"$", "{", "x", "}">>

\* An output variable's definition is a dict: a key that is absent is not in
\* the record's domain.
OutSpecs ==
    { [path |-> PathTemplate, table |-> TableTemplate, ucsc_track |-> TrackTemplate],
      [table |-> TableTemplate, ucsc_track |-> TrackTemplate],
      [path |-> PathTemplate, ucsc_track |-> BadTemplate] }

\* out_var.get(key) is not None
Has(out_var, key) == key \in DOMAIN out_var

\* the orders in which the keys of a dict over a subset of S can be declared
KeyOrders(S) ==
    {q \in SeqsUpTo(S, Cardinality(S)) :
        \A a, b \in 1..Len(q) : a # b => q[a] # q[b]}

\* the dicts {out_var_name: out_var}
OutVarDicts ==
    UNION { { [n \in 1..Len(q) |-> [name |-> q[n], spec |-> f[n]]] :
                f \in [1..Len(q) -> OutSpecs] } : q \in KeyOrders(VarNames) }

\* the dicts {task_name: out_vars}
OutDefs ==
    UNION { { [n \in 1..Len(q) |-> [task_name |-> q[n], out_vars |-> f[n]]] :
                f \in [1..Len(q) -> OutVarDicts] } : q \in KeyOrders(TaskNames) }

LocalFile == <<"/", "w", "/", "x.bam">>
RemoteFile == <<"gs:", "/", "/", "b", "/", "y.bam">>
OddFile == <<"/", "w", "/", "$", "{", "basename", "}">>

\* task records: a record with the same output variable twice, a record of
\* another task, a record with a file named "${basename}"
TaskRecords ==
    { [task_name |-> "align", shard_idx |-> <<0, -1>>,
       out_files |-> << <<"bam", LocalFile>>, <<"bam", RemoteFile>> >>],
      [task_name |-> "align2", shard_idx |-> <<-1>>,
       out_files |-> << <<"bam2", RemoteFile>>, <<"bam", LocalFile>> >>],
      [task_name |-> "align", shard_idx |-> <<1, -1>>,
       out_files |-> << <<"bam2", OddFile>>, <<"bam", LocalFile>> >>] }

\* the nodes of a graph are distinct task instances
TaskGraphs ==
    {g \in SeqsUpTo(TaskRecords, MaxNodes) :
        \A a, b \in 1..Len(g) : a # b => g[a] # g[b]}

-----------------------------------------------------------------------------
(* Croo.organize_output: the collaborators *)

IsRemote(loc) == Len(loc) > 0 /\ loc[1] = "gs:"

\* CaperURI(full_path).copy(target_uri, soft_link): the location the file ends
\* at.  A soft link of a remote file keeps the original source.
CopyReturn(src, target_uri, soft) ==
    IF soft /\ IsRemote(src) THEN src ELSE target_uri

\* CaperURI(target_uri).get_url(): a URL for a remote location, None for a
\* local path.
GetUrl(loc) ==
    IF IsRemote(loc) THEN PyStr(<<"https://storage">> \o Tail(loc)) ELSE PyNone

-----------------------------------------------------------------------------
(* Croo.organize_output: the loops *)

\* The loop position <<ti, vi, ni, oi>>: task ti of the definition, output
\* variable vi of it, task record ni of the graph, entry oi of its out_files.
\* oi = 0 is the test of the record's task name.  End: all loops are over.
End == <<0, 0, 0, 0>>

NumTasks == Len(out_def)
NumVars(ti) == Len(out_def[ti].out_vars)
NumNodes == Len(task_graph)
NumFiles(ni) == Len(task_graph[ni].out_files)

MaxOf(S) == IF S = {} THEN 0 ELSE SetMax(S)

\* every position the four nested for loops pass through
Positions ==
    LET maxVars == MaxOf({NumVars(ti) : ti \in 1..NumTasks})
        maxFiles == MaxOf({NumFiles(ni) : ni \in 1..NumNodes})
    IN  {q \in (1..NumTasks) \X (1..maxVars) \X (1..NumNodes) \X (0..maxFiles) :
            q[2] <= NumVars(q[1]) /\ q[4] <= NumFiles(q[3])}

\* the vars loop nested in the nodes loop
Before_VarsInner(p, q) ==
    \/ p[1] < q[1]
    \/ p[1] = q[1] /\ p[3] < q[3]
    \/ p[1] = q[1] /\ p[3] = q[3] /\ p[2] < q[2]
    \/ p[1] = q[1] /\ p[3] = q[3] /\ p[2] = q[2] /\ p[4] < q[4]

\* The loops are nested: for task_name (ti), for out_var_name (vi), for task
\* (ni), for k, full_path (oi).  p comes before q.
Before(p, q) ==
    \/ p[1] < q[1]
    \/ p[1] = q[1] /\ p[2] < q[2]
    \/ p[1] = q[1] /\ p[2] = q[2] /\ p[3] < q[3]
    \/ p[1] = q[1] /\ p[2] = q[2] /\ p[3] = q[3] /\ p[4] < q[4]

\* the first position of S, End when there is none
FirstOf(S) ==
    IF S = {} THEN End
    ELSE CHOOSE p \in S : \A q \in S : p = q \/ Before(p, q)

\* where the loops start
FirstPos == FirstOf(Positions)

\* the next iteration of the innermost loop that is open at p (the files
\* loop, entered when p is the test of the task name)
NextFile(p) == FirstOf({q \in Positions : Before(p, q)})

\* continue in the nodes loop: the next task record, whatever is left of
\* this one
NextNode(p) ==
    FirstOf({q \in Positions :
                Before(p, q) /\ <<q[1], q[2], q[3]>> # <<p[1], p[2], p[3]>>})

\* a name that starts with another
StartsWith(a, b) == a = b \/ <<a, b>> \in {<<"align2", "align">>, <<"bam2", "bam">>}

TaskMatches_Prefix(task_name, node_task_name) == StartsWith(node_task_name, task_name)

\* not (task_name != task['task_name'])
TaskMatches(task_name, node_task_name) == task_name = node_task_name

OutVarMatches_Prefix(k, out_var_name) == StartsWith(k, out_var_name)

\* not (k != out_var_name)
OutVarMatches(k, out_var_name) == k = out_var_name

-----------------------------------------------------------------------------
(* Croo.organize_output: one match *)

Resolved(text) == [kind |-> "ok", res |-> text]

\* target_uri is left as the destination that was asked for
TargetUri_Requested(out_var, fp, requested, soft) ==
    IF Has(out_var, "path") THEN requested ELSE fp

\* target_uri after the if/else on path: what copy returned, or full_path
TargetUri(out_var, fp, requested, soft) ==
    IF Has(out_var, "path") THEN CopyReturn(fp, requested, soft) ELSE fp

\* the track is added whether or not there is a URL
TrackWanted_NoUrlTest(out_var, target_url) == Has(out_var, "ucsc_track")

\* ucsc_track is not None and target_url is not None
TrackWanted(out_var, target_url) ==
    Has(out_var, "ucsc_track") /\ target_url # PyNone

CopyCall(at, fp, requested, soft, ret) ==
    [op |-> "copy", at |-> at, src |-> fp, target |-> requested,
     soft_link |-> soft, ret |-> ret]
GetUrlCall(at, fp, uri, ret) ==
    [op |-> "get_url", at |-> at, src |-> fp, uri |-> uri, ret |-> ret]
TableCall(at, fp, uri, url, text) ==
    [op |-> "add_to_file_table", at |-> at, src |-> fp, uri |-> uri,
     url |-> url, text |-> text]
TrackCall(at, fp, url, text) ==
    [op |-> "add_to_ucsc_track", at |-> at, src |-> fp, url |-> url, text |-> text]

\* How the body of the innermost loop ends ("ok", "raise": an exception
\* leaves organize_output, "loop": an interpretation never returns) and the
\* calls it has made, in order.
Ended(outcome, calls) == [outcome |-> outcome, calls |-> calls]

\* report.add_to_ucsc_track(target_url, interpreted_ucsc_track), when tr (the
\* interpretation of ucsc_track) has returned
TrackEmit(out_var, fp, at, url, calls, tr) ==
    IF tr.kind # "ok" THEN Ended(tr.kind, calls)
    ELSE IF TrackWanted(out_var, url)
         THEN Ended("ok", Append(calls, TrackCall(at, fp, url, tr.res)))
         ELSE Ended("ok", calls)

\* if ucsc_track is not None and target_url is not None: interpret it
TrackStep(out_var, fp, sh, at, url, calls) ==
    TrackEmit(out_var, fp, at, url, calls,
              IF TrackWanted(out_var, url)
              THEN InterpretInlineExp(out_var.ucsc_track, fp, sh)
              ELSE Resolved(<< >>))

\* report.add_to_file_table(target_uri, target_url, interpreted_table_item),
\* when tb (the interpretation of table) has returned
TableEmit(out_var, fp, sh, at, uri, url, calls, tb) ==
    IF tb.kind # "ok" THEN Ended(tb.kind, calls)
    ELSE TrackStep(out_var, fp, sh, at, url,
                   IF Has(out_var, "table")
                   THEN Append(calls, TableCall(at, fp, uri, url, tb.res))
                   ELSE calls)

\* if table_item is not None: interpret it
TableStep(out_var, fp, sh, at, uri, url, calls) ==
    TableEmit(out_var, fp, sh, at, uri, url, calls,
              IF Has(out_var, "table")
              THEN InterpretInlineExp(out_var.table, fp, sh)
              ELSE Resolved(<< >>))

\* target_url = CaperURI(target_uri).get_url()
UrlStep(out_var, fp, sh, at, uri, calls) ==
    TableStep(out_var, fp, sh, at, uri, GetUrl(uri),
              Append(calls, GetUrlCall(at, fp, uri, GetUrl(uri))))

\* target_uri = os.path.join(self._out_dir, interpreted_path) and the copy,
\* or target_uri = full_path; p is the interpretation of path
PlaceStep(out_var, fp, sh, at, soft, p) ==
    IF p.kind # "ok" THEN Ended(p.kind, << >>)
    ELSE UrlStep(out_var, fp, sh, at,
                 TargetUri(out_var, fp, Join(OutDir, p.res), soft),
                 IF Has(out_var, "path")
                 THEN <<CopyCall(at, fp, Join(OutDir, p.res), soft,
                                 CopyReturn(fp, Join(OutDir, p.res), soft))>>
                 ELSE << >>)

\* The body of the innermost loop for a matched file.
MatchBody(out_var, fp, sh, at, soft) ==
    PlaceStep(out_var, fp, sh, at, soft,
              IF Has(out_var, "path")
              THEN InterpretInlineExp(out_var.path, fp, sh)
              ELSE Resolved(<< >>))

\* the exception is swallowed and the loops go on
PcAfter_Swallow(outcome) ==
    CASE outcome = "ok"    -> "run"
      [] outcome = "raise" -> "run"
      [] outcome = "loop"  -> "hung"

\* where organize_output is after the body: an exception is not caught
\* anywhere (main calls organize_output bare), a loop never returns
PcAfter(outcome) ==
    CASE outcome = "ok"    -> "run"
      [] outcome = "raise" -> "raised"
      [] outcome = "loop"  -> "hung"

-----------------------------------------------------------------------------
(* Croo.organize_output: the step machine *)

InterpIdle ==
    /\ s = << >>
    /\ full_path = << >>
    /\ shard_idx = <<-1>>
    /\ result = << >>
    /\ m = NoMatch
    /\ ipc = "idle"

Init ==
    /\ out_def \in OutDefs
    /\ task_graph \in TaskGraphs
    /\ soft_link \in BOOLEAN
    /\ pos = FirstPos
    /\ log = << >>
    /\ saved = FALSE
    /\ pc = "run"
    /\ InterpIdle

\* if task_name != task['task_name']: continue
CheckTask ==
    /\ pc = "run"
    /\ pos # End
    /\ pos[4] = 0
    /\ LET ti == pos[1]
           ni == pos[3]
       IN  pos' = IF TaskMatches(out_def[ti].task_name, task_graph[ni].task_name)
                  THEN NextFile(pos)
                  ELSE NextNode(pos)
    /\ UNCHANGED <<out_def, task_graph, soft_link, log, saved, pc>>
    /\ UNCHANGED interp_vars

\* if k != out_var_name: continue; otherwise the body for the matched file
CheckFile ==
    /\ pc = "run"
    /\ pos # End
    /\ pos[4] > 0
    /\ LET ti == pos[1]
           vi == pos[2]
           ni == pos[3]
           oi == pos[4]
           entry == out_def[ti].out_vars[vi]
           task == task_graph[ni]
           file == task.out_files[oi]
       IN  IF OutVarMatches(file[1], entry.name)
           THEN LET b == MatchBody(entry.spec, file[2], task.shard_idx, pos, soft_link)
                IN  /\ log' = log \o b.calls
                    /\ pc' = PcAfter(b.outcome)
                    /\ pos' = IF PcAfter(b.outcome) = "run" THEN NextFile(pos) ELSE pos
           ELSE /\ pos' = NextFile(pos)
                /\ UNCHANGED <<log, pc>>
    /\ UNCHANGED <<out_def, task_graph, soft_link, saved>>
    /\ UNCHANGED interp_vars

\* report.save_to_file()
SaveToFile ==
    /\ pc = "run"
    /\ pos = End
    /\ saved' = TRUE
    /\ pc' = "done"
    /\ UNCHANGED <<out_def, task_graph, soft_link, pos, log>>
    /\ UNCHANGED interp_vars

Next == CheckTask \/ CheckFile \/ SaveToFile

Spec == Init /\ [][Next]_vars

-----------------------------------------------------------------------------
(* Claims about the interpreter *)

\* the identifiers of the supported-expressions table
Table == {"i", "j", "k", "basename", "dirname", "full_path", "shard_idx"}

IsWord(tok) == tok \notin {"$", "{", "}", "/"}

Placeholder(name) == <<"$", "{", name, "}">>

Contains(r, sub) == FirstOcc(r, sub) # 0

\* i, j or k is unbound for the scatter index sh
Unbound(name, sh) ==
    \/ name = "i" /\ sh[1] = -1
    \/ name = "j" /\ (Len(sh) < 2 \/ sh[2] = -1)
    \/ name = "k" /\ (Len(sh) < 3 \/ sh[3] = -1)

\* C2: a template that contains ${i}, ${j} or ${k} while that identifier is
\* unbound never makes the interpreter return a string.
C2_UnboundIndexRaises ==
    ipc = "returned" =>
        \A name \in {"i", "j", "k"} :
            ~(Unbound(name, shard_idx) /\ Contains(s, Placeholder(name)))

\* C3: a template with a placeholder whose expression is an identifier
\* outside the table never makes the interpreter return a string.
C3_UnknownIdentifierRaises ==
    ipc = "returned" =>
        \A n \in 1..Len(s) :
            ~(IsWord(s[n]) /\ s[n] \notin Table /\ Contains(s, Placeholder(s[n])))

\* C4: the rescan loop ends: the call raises, or returns a string without
\* any placeholder.
C4_LoopTerminates ==
    <>(ipc = "raised" \/ (ipc = "returned" /\ Search(result) = NoMatch))

\* the expressions of the placeholders of tmpl, left to right
RECURSIVE PlaceholderExprs(_)
PlaceholderExprs(tmpl) ==
    LET mt == Search(tmpl)
    IN  IF mt = NoMatch THEN << >>
        ELSE <<Group1(tmpl, mt)>> \o PlaceholderExprs(SubSeq(tmpl, mt.end + 1, Len(tmpl)))

\* every placeholder of tmpl is a bound identifier of the table
AllBoundTable(tmpl, sh) ==
    LET es == PlaceholderExprs(tmpl)
    IN  \A n \in 1..Len(es) :
            /\ Len(es[n]) = 1
            /\ es[n][1] \in Table
            /\ ~Unbound(es[n][1], sh)

\* tmpl with each placeholder, left to right, replaced by the string form of
\* its identifier's value; the text outside placeholders and the inserted
\* values are left as they are
RECURSIVE OnePass(_, _, _)
OnePass(tmpl, fp, sh) ==
    LET mt == Search(tmpl)
    IN  IF mt = NoMatch THEN tmpl
        ELSE SubSeq(tmpl, 1, mt.start - 1)
             \o Str(Lookup(Group1(tmpl, mt)[1], tmpl, fp, sh, tmpl))
             \o OnePass(SubSeq(tmpl, mt.end + 1, Len(tmpl)), fp, sh)

\* C5: for a template whose placeholders are all bound identifiers of the
\* table the interpreter does not raise, and the string it returns is the
\* template with each placeholder replaced by the string form of its value.
C5_ValueCorrect ==
    AllBoundTable(s, shard_idx) =>
        /\ ipc # "raised"
        /\ ipc = "returned" => result = OnePass(s, full_path, shard_idx)

\* The cap on the working string stops no run of the step machine.
CapNeverBinds ==
    ipc = "replace" =>
        Len(LoopBody(result, s, full_path, shard_idx).res) <= MaxResultLen

\* Value-correctness holds for file locations that contain no "$".
PlainFileValueCorrect ==
    (AllBoundTable(s, shard_idx) /\ ~Contains(full_path, <<"$">>)) =>
        /\ ipc # "raised"
        /\ ipc = "returned" => result = OnePass(s, full_path, shard_idx)

-----------------------------------------------------------------------------
(* Claims about organize_output *)

\* q is a match: a file position whose task name and output-variable name
\* are both string-equal to the definition entry's
IsMatch(q) ==
    /\ q[4] > 0
    /\ out_def[q[1]].task_name = task_graph[q[3]].task_name
    /\ out_def[q[1]].out_vars[q[2]].name = task_graph[q[3]].out_files[q[4]][1]

Matches == {q \in Positions : IsMatch(q)}

SpecAt(q) == out_def[q[1]].out_vars[q[2]].spec
FileAt(q) == task_graph[q[3]].out_files[q[4]][2]
ShardAt(q) == task_graph[q[3]].shard_idx

\* the match order: definition task, then output variable, then task
\* record, then entry of the record's output list
MatchOrder(p, q) ==
    \E n \in 1..4 : p[n] < q[n] /\ \A k \in 1..(n - 1) : p[k] = q[k]

\* the calls of kind op made for q
CallsAt(q, op) == {n \in 1..Len(log) : log[n].at = q /\ log[n].op = op}

\* match q was processed to the end of the loop body
Processed(q) == IsMatch(q) /\ (pos = End \/ MatchOrder(q, pos))

\* match q was processed to the end, or an exception left its body
Started(q) == Processed(q) \/ (IsMatch(q) /\ q = pos /\ pc = "raised")

UrlObtained(q) == \E n \in CallsAt(q, "get_url") : log[n].ret # PyNone

\* The log only grows, so the calls of a whole run are those of its last
\* state: organize_output has returned, raised, or hangs in an interpretation.
RunEnded == pc \in {"done", "raised", "hung"}

\* C1: the sink calls follow the match order: for two calls, the earlier
\* one belongs to the same match or to a match that comes first in the
\* order (task, output variable, task record, output-list entry); each call
\* is made for the file at its position.
C1_CallsInMatchOrder ==
    /\ \A a, b \in 1..Len(log) :
          a < b => (log[a].at = log[b].at \/ MatchOrder(log[a].at, log[b].at))
    /\ \A n \in 1..Len(log) :
          log[n].at \in Positions /\ log[n].at[4] > 0 /\ log[n].src = FileAt(log[n].at)

\* calls were made for matches that differ in the output variable, in the
\* task record and in the output-list entry
C1_Witness ==
    /\ pc = "done"
    /\ \E a, b \in 1..Len(log) : log[a].at[2] # log[b].at[2]
    /\ \E a, b \in 1..Len(log) :
          log[a].at[2] = log[b].at[2] /\ log[a].at[3] # log[b].at[3]
    /\ \E a, b \in 1..Len(log) :
          /\ log[a].at[2] = log[b].at[2]
          /\ log[a].at[3] = log[b].at[3]
          /\ log[a].at[4] # log[b].at[4]

\* what C6 says of match q
TrackIffUrl(q) ==
    /\ (CallsAt(q, "add_to_ucsc_track") # {}) <=> UrlObtained(q)
    /\ ~UrlObtained(q) =>
          /\ CallsAt(q, "add_to_ucsc_track") = {}
          /\ Has(SpecAt(q), "table") =>
                \E n \in CallsAt(q, "add_to_file_table") : log[n].url = PyNone

\* C6 as stated: for every match whose OutputSpec has a track template, a
\* track entry is emitted if and only if a URL was obtained; without a URL
\* there is no track entry and still a table entry when there is a table
\* template.
C6_TrackIffUrl ==
    \A q \in Matches :
        (Started(q) /\ Has(SpecAt(q), "ucsc_track")) => TrackIffUrl(q)

\* the body of match q was entered: it ran to its end, or it raised, or it
\* hangs in an interpretation
Reached(q) == Processed(q) \/ (IsMatch(q) /\ q = pos /\ pc \in {"raised", "hung"})

\* the template under key, when the OutputSpec of q has one, is resolved to
\* a string for the file of q
Resolves(q, key) ==
    Has(SpecAt(q), key) =>
        InterpretInlineExp(SpecAt(q)[key], FileAt(q), ShardAt(q)).kind = "ok"

\* C6 as amended: in the calls of a run, for every match whose OutputSpec
\* has a track template, a track entry is emitted if and only if a URL was
\* obtained and the table and track templates are resolved to a string,
\* and at most one is; when the lookup gave no URL there is no track entry
\* and still a table entry without URL when there is a table template that
\* resolves; no track entry is ever emitted without the URL obtained for
\* its match.
C6_TrackIffUrlWhenResolved ==
    /\ RunEnded =>
          \A q \in Matches :
              (Reached(q) /\ Has(SpecAt(q), "ucsc_track")) =>
                  /\ (CallsAt(q, "add_to_ucsc_track") # {}) <=>
                        (UrlObtained(q) /\ Resolves(q, "table") /\ Resolves(q, "ucsc_track"))
                  /\ Cardinality(CallsAt(q, "add_to_ucsc_track")) <= 1
                  /\ (CallsAt(q, "get_url") # {} /\ ~UrlObtained(q)) =>
                        /\ CallsAt(q, "add_to_ucsc_track") = {}
                        /\ (Has(SpecAt(q), "table") /\ Resolves(q, "table")) =>
                              \E n \in CallsAt(q, "add_to_file_table") : log[n].url = PyNone
    /\ \A n \in 1..Len(log) :
          log[n].op = "add_to_ucsc_track" =>
              /\ log[n].url # PyNone
              /\ \E k \in CallsAt(log[n].at, "get_url") : log[k].ret = log[n].url

\* one match with a track template got a URL and a track entry; another got
\* no URL, no track entry, and a table entry without URL; a third got a
\* URL and raised in its track template
C6_Witness ==
    /\ \E q \in Matches :
          /\ Processed(q) /\ Has(SpecAt(q), "ucsc_track")
          /\ UrlObtained(q) /\ CallsAt(q, "add_to_ucsc_track") # {}
    /\ \E q \in Matches :
          /\ Processed(q) /\ Has(SpecAt(q), "ucsc_track")
          /\ CallsAt(q, "get_url") # {} /\ ~UrlObtained(q)
          /\ CallsAt(q, "add_to_ucsc_track") = {}
          /\ \E n \in CallsAt(q, "add_to_file_table") : log[n].url = PyNone
    /\ pc = "raised"
    /\ UrlObtained(pos) /\ ~Resolves(pos, "ucsc_track")
    /\ CallsAt(pos, "add_to_ucsc_track") = {}

\* a template that the body of match q interprets raises
BodyRaises(q) ==
    \/ /\ Has(SpecAt(q), "path")
       /\ InterpretInlineExp(SpecAt(q).path, FileAt(q), ShardAt(q)).kind = "raise"
    \/ /\ Has(SpecAt(q), "table")
       /\ InterpretInlineExp(SpecAt(q).table, FileAt(q), ShardAt(q)).kind = "raise"
    \/ /\ Has(SpecAt(q), "ucsc_track")
       /\ UrlObtained(q)
       /\ InterpretInlineExp(SpecAt(q).ucsc_track, FileAt(q), ShardAt(q)).kind = "raise"

\* C7: a resolution error aborts the run at once.  The loops never go past
\* a match with a template that raises; once the error is raised no step
\* is left to take, the report is not saved, the failing match has no
\* entry for the template that raised and no later match has any call,
\* and the placements of the matches processed before are all in place.
C7_ErrorAborts ==
    /\ RunEnded => \A q \in Matches : Processed(q) => ~BodyRaises(q)
    /\ saved => \A q \in Matches : ~BodyRaises(q)
    /\ pc = "raised" =>
          /\ ~saved
          /\ ~ENABLED Next
          /\ pos # End /\ IsMatch(pos) /\ BodyRaises(pos)
          /\ CallsAt(pos, "add_to_ucsc_track") = {}
          /\ \A n \in 1..Len(log) : log[n].at = pos \/ MatchOrder(log[n].at, pos)
          /\ \A q \in Matches :
                (Processed(q) /\ Has(SpecAt(q), "path")) =>
                    Cardinality(CallsAt(q, "copy")) = 1

\* the run was aborted after a file of an earlier match had been placed
C7_Witness ==
    /\ pc = "raised"
    /\ ~saved
    /\ \E q \in Matches : Processed(q) /\ CallsAt(q, "copy") # {}
    /\ CallsAt(pos, "copy") # {}

\* C8 as stated: in a run without errors the number of placement requests
\* equals the number of matches, one for each match.
C8_OnePlacementPerMatch ==
    pc = "done" =>
        /\ Cardinality({n \in 1..Len(log) : log[n].op = "copy"}) = Cardinality(Matches)
        /\ \A q \in Matches : Cardinality(CallsAt(q, "copy")) = 1

\* C8 as amended: in a run without errors a match whose OutputSpec has a
\* path gets exactly one placement request, a match without a path gets
\* none; every match gets exactly one URL lookup; a position that is not a
\* match gets no call at all.
C8_OnePlacementPerMatchWithPath ==
    pc = "done" =>
        /\ \A q \in Matches :
              /\ Cardinality(CallsAt(q, "copy")) =
                    (IF Has(SpecAt(q), "path") THEN 1 ELSE 0)
              /\ Cardinality(CallsAt(q, "get_url")) = 1
        /\ \A n \in 1..Len(log) : IsMatch(log[n].at)
        /\ Cardinality({n \in 1..Len(log) : log[n].op = "copy"}) =
              Cardinality({q \in Matches : Has(SpecAt(q), "path")})

\* a run ended in which an output variable occurred twice in one record and
\* was placed twice, a match without a path was not placed, and an output
\* whose name differs by a prefix was passed over
C8_Witness ==
    /\ pc = "done"
    /\ \E p, q \in Matches :
          /\ p # q /\ <<p[1], p[2], p[3]>> = <<q[1], q[2], q[3]>>
          /\ CallsAt(p, "copy") # {} /\ CallsAt(q, "copy") # {}
    /\ \E q \in Matches : ~Has(SpecAt(q), "path") /\ CallsAt(q, "copy") = {}
    /\ \E q \in Positions :
          /\ q[4] > 0 /\ q \notin Matches
          /\ out_def[q[1]].task_name = task_graph[q[3]].task_name
          /\ StartsWith(task_graph[q[3]].out_files[q[4]][1],
                        out_def[q[1]].out_vars[q[2]].name)

\* the definition entry (ti, vi) matches no task-graph output
Unmatched(ti, vi) ==
    ~\E ni \in 1..NumNodes : \E oi \in 1..NumFiles(ni) : IsMatch(<<ti, vi, ni, oi>>)

\* C9: a definition entry that matches no task-graph output gets no call
\* and raises nothing, and the run is not stopped by it: a run only stops
\* in a match, a run that has not stopped is at the end of the loops or at
\* a position of them, and a run that ends has processed every match and
\* saved the report.
C9_UnmatchedEntrySkipped ==
    /\ \A n \in 1..Len(log) : ~Unmatched(log[n].at[1], log[n].at[2])
    /\ pc \in {"raised", "hung"} => (pos # End /\ ~Unmatched(pos[1], pos[2]))
    /\ pc = "run" => (pos = End \/ pos \in Positions)
    /\ pc = "done" =>
          /\ saved
          /\ \A q \in Matches : CallsAt(q, "get_url") # {}

\* a run ended, with calls made, whose definition has an unmatched entry
\* with an unresolvable template declared before a matched entry
C9_Witness ==
    /\ pc = "done"
    /\ saved
    /\ \E ti \in 1..NumTasks : \E vi \in 1..NumVars(ti) :
          /\ Unmatched(ti, vi)
          /\ Has(out_def[ti].out_vars[vi].spec, "ucsc_track")
          /\ out_def[ti].out_vars[vi].spec.ucsc_track = BadTemplate
          /\ \E n \in 1..Len(log) : MatchOrder(<<ti, vi, 0, 0>>, log[n].at)

\* the order of the steps of one match
StepRank(op) ==
    CASE op = "copy" -> 1
      [] op = "get_url" -> 2
      [] op = "add_to_file_table" -> 3
      [] op = "add_to_ucsc_track" -> 4

\* the location match q ended at: what its placement returned, or the
\* original location when it has no path
FinalLocation(q) ==
    IF Has(SpecAt(q), "path")
    THEN CopyReturn(FileAt(q),
                    Join(OutDir, InterpretInlineExp(SpecAt(q).path, FileAt(q), ShardAt(q)).res),
                    soft_link)
    ELSE FileAt(q)

\* C10: in the calls of a run, within a match the calls come in the order
\* place, get URL, table entry, track entry; the placement is asked for the resolved path; the
\* URL is looked up for the final location (returned by the placement, or
\* the original location when there is no path); the table and track
\* entries carry that location and the URL looked up for it.
C10_StepsInOrder ==
    RunEnded =>
        /\ \A a, b \in 1..Len(log) :
              (a < b /\ log[a].at = log[b].at) => StepRank(log[a].op) < StepRank(log[b].op)
        /\ \A n \in 1..Len(log) :
              LET q == log[n].at
              IN  /\ log[n].op = "copy" =>
                        /\ Has(SpecAt(q), "path")
                        /\ log[n].src = FileAt(q)
                        /\ log[n].target =
                              Join(OutDir, InterpretInlineExp(SpecAt(q).path, FileAt(q),
                                                              ShardAt(q)).res)
                        /\ log[n].ret = FinalLocation(q)
                  /\ log[n].op = "get_url" =>
                        /\ log[n].uri = FinalLocation(q)
                        /\ Has(SpecAt(q), "path") => CallsAt(q, "copy") # {}
                  /\ log[n].op = "add_to_file_table" =>
                        /\ log[n].uri = FinalLocation(q)
                        /\ log[n].text =
                              InterpretInlineExp(SpecAt(q).table, FileAt(q), ShardAt(q)).res
                        /\ \E k \in CallsAt(q, "get_url") :
                              log[k].uri = log[n].uri /\ log[k].ret = log[n].url
                  /\ log[n].op = "add_to_ucsc_track" =>
                        /\ log[n].text =
                              InterpretInlineExp(SpecAt(q).ucsc_track, FileAt(q), ShardAt(q)).res
                        /\ \E k \in CallsAt(q, "get_url") :
                              log[k].uri = FinalLocation(q) /\ log[k].ret = log[n].url

\* a match made all four calls and its placement returned another location
\* than the one asked for; a match without a path made a table entry for
\* the original location
C10_Witness ==
    /\ \E q \in Matches :
          /\ CallsAt(q, "add_to_ucsc_track") # {}
          /\ CallsAt(q, "add_to_file_table") # {}
          /\ \E n \in CallsAt(q, "copy") : log[n].ret # log[n].target
    /\ \E q \in Matches :
          /\ ~Has(SpecAt(q), "path")
          /\ \E n \in CallsAt(q, "add_to_file_table") : log[n].uri = FileAt(q)

=============================================================================
